---------------------------- MODULE Spec2Model ----------------------------
(***************************************************************************)
(* PantryChef AI (KaustavDey357/RecipeApp): the session state held by the  *)
(* App component, its event handlers, the IntersectionObserver that drives *)
(* pagination, and the two calls of the Gemini client.                     *)
(*                                                                         *)
(* React state is modelled by one variable per useState cell.  A handler   *)
(* that awaits a request is split at the await: the part before it is one  *)
(* action (it puts a request in flight), the continuation after it is a    *)
(* second action taken when the request settles.  The service is outside   *)
(* the program, so what it answers is drawn nondeterministically.          *)
(*                                                                         *)
(* The observer calls the loadMoreSuggestions closure of the render in     *)
(* which the effect of lines 117-130 last ran, so the guard of line 97     *)
(* reads the isFetchingMore / hasReachedEnd of that render, not the        *)
(* current ones.  Click handlers are discrete events: React renders and    *)
(* flushes the effect before the handler's event returns.  Updates made    *)
(* from an observer callback or a promise continuation are rendered        *)
(* later, and the effect runs after that: until then the old observer,     *)
(* with the old closure, stays connected.                                  *)
(***************************************************************************)
EXTENDS Naturals, Sequences, FiniteSets, Bags

\* ------------------------------------------------------------ bounds

\* Longest ingredient list.
MaxIngredients == 1
\* Longest suggestion list, and the most items one response carries.
MaxSuggestions == 2
\* Most pagination requests in flight at once.
MaxMore == 2

\* ------------------------------------------------------------ values

\* A nullable cell is a sequence: null is <<>>, a value v is <<v>>.
null == <<>>

Some(v) == <<v>>

\* AppState
AppState == {"input", "suggesting", "results", "loading_recipe", "recipe"}

\* The three messages setError is called with.
NoInputMsg == "Please add at least one ingredient or a photo."

SuggestFailMsg == "Failed to get suggestions. Please check your API key."

DetailFailMsg == "Failed to fetch recipe details."

\* What the text box can hold: nothing, or a padded name.
InputValues == {"", " egg "}

\* String.prototype.trim on those values.
Trim(s) == IF s = " egg " THEN "egg" ELSE s

\* The data URL a FileReader delivers.
DataUrl == "data:image/jpeg;base64,AAAA"

\* DishSuggestion: the dishes the service can name.
DishSuggestion == {[id |-> "1", name |-> "Omelette"],
                   [id |-> "2", name |-> "Fried rice"]}

\* Sequences over S of length at most n.
SeqsUpTo(S, n) == UNION {[1..k -> S] : k \in 0..n}

\* RecipeDetail as the service sends it for a dish: complete says whether the
\* required fields (ingredients, instructions, ...) are there; sources is the
\* optional field, absent (null) in the body.
RecipeDetail(dish) == [name |-> dish.name, complete |-> TRUE, sources |-> null]

\* JSON.parse('{}'): an object with none of the fields.
EmptyObject == [name |-> "", complete |-> FALSE, sources |-> null]

\* groundingChunks of a response: undefined (null), or one web chunk and one
\* chunk without web.
WebChunk == [web |-> TRUE, title |-> "t", uri |-> "u"]

OtherChunk == [web |-> FALSE, title |-> "", uri |-> ""]

GroundingChunks == {null, Some(<<WebChunk, OtherChunk>>)}

\* groundingChunks.filter(chunk => chunk.web)
RECURSIVE FilterWeb(_)
FilterWeb(s) ==
  IF s = <<>> THEN <<>>
  ELSE IF Head(s).web THEN <<Head(s)>> \o FilterWeb(Tail(s))
       ELSE FilterWeb(Tail(s))

\* ---------------------------------------------------- the Gemini client

\* What ai.models.generateContent does for a suggestion request: it rejects,
\* or resolves with a response whose text is missing/empty, is not JSON, or
\* is the JSON of a list of dishes.
SuggestionResponses ==
  {[kind |-> "rejected", value |-> <<>>],
   [kind |-> "empty", value |-> <<>>],
   [kind |-> "invalid", value |-> <<>>]}
  \cup {[kind |-> "json", value |-> v] : v \in SeqsUpTo(DishSuggestion, MaxSuggestions)}

\* What it does for a detail request: the same, the JSON being the recipe of
\* the dish the prompt names, with or without grounding chunks.
DetailResponses(dish) ==
  {[kind |-> "rejected", value |-> EmptyObject, chunks |-> null],
   [kind |-> "empty", value |-> EmptyObject, chunks |-> null],
   [kind |-> "invalid", value |-> EmptyObject, chunks |-> null]}
  \cup {[kind |-> "json", value |-> RecipeDetail(dish), chunks |-> c] : c \in GroundingChunks}

\* getDishSuggestions: awaits the response and returns
\* JSON.parse(response.text || '[]'); a rejection or a parse error throws.
getDishSuggestions(resp) ==
  CASE resp.kind = "rejected" -> [threw |-> TRUE, value |-> <<>>]
    [] resp.kind = "invalid" -> [threw |-> TRUE, value |-> <<>>]
    [] resp.kind = "empty" -> [threw |-> FALSE, value |-> <<>>]
    [] OTHER -> [threw |-> FALSE, value |-> resp.value]

\* getRecipeDetail: JSON.parse(response.text || '{}'), then sources from the
\* web grounding chunks when there are chunks.
getRecipeDetail(resp) ==
  LET Source(c) == [title |-> c.title, uri |-> c.uri]
      parsed == IF resp.kind = "empty" THEN EmptyObject ELSE resp.value
      web == FilterWeb(resp.chunks[1])
      detail == IF resp.chunks # null
                THEN [parsed EXCEPT !.sources = Some([i \in 1..Len(web) |-> Source(web[i])])]
                ELSE parsed
  IN  IF resp.kind \in {"rejected", "invalid"}
      THEN [threw |-> TRUE, value |-> EmptyObject]
      ELSE [threw |-> FALSE, value |-> detail]

\* ------------------------------------------------------------ state

VARIABLES
  state,           \* useState<AppState>('input')
  ingredients,     \* useState<Ingredient[]>([])
  inputValue,      \* useState('')
  suggestions,     \* useState<DishSuggestion[]>([])
  selectedRecipe,  \* useState<RecipeDetail | null>(null)
  error,           \* useState<string | null>(null)
  capturedImage,   \* useState<string | null>(null)
  isFetchingMore,  \* useState(false)
  hasReachedEnd,   \* useState(false)
  observer,        \* the connected IntersectionObserver: null, or the closure it calls
  inflight,        \* bag of the requests awaiting their response
  crashed,         \* a render threw: React has unmounted the tree
  event            \* history: the handler that ran last, and its inputs

vars == <<state, ingredients, inputValue, suggestions, selectedRecipe, error,
          capturedImage, isFetchingMore, hasReachedEnd, observer, inflight,
          crashed, event>>

\* The session record of the spec: every useState cell.
session == <<state, ingredients, inputValue, suggestions, selectedRecipe, error,
             capturedImage, isFetchingMore, hasReachedEnd>>

Ev(op, arg) == [op |-> op, arg |-> arg]

\* A request in flight.  kind: "suggest" (findDishes), "more"
\* (loadMoreSuggestions), "detail" (showRecipe, with the dish of its closure).
\* listed is history, kept for the requests of findDishes and showRecipe: the
\* suggestion list of the render whose handler issued the request.
Request(kind, dish, listed) == [kind |-> kind, dish |-> dish, listed |-> listed]

Issue(req) == inflight (+) SetToBag({req})

Settle(req) == inflight (-) SetToBag({req})

CountKind(B, kinds) ==
  BagCardinality([r \in {x \in BagToSet(B) : x.kind \in kinds} |-> B[r]])

\* The closure of loadMoreSuggestions a render creates: what line 97 reads.
Closure(fetching, reached) == [isFetchingMore |-> fetching, hasReachedEnd |-> reached]

\* The effect of lines 117-130 for a render with these values: no observer
\* unless the screen is results, else an observer calling that render's
\* loadMoreSuggestions.
useEffectObserver(st, fetching, reached, dead) ==
  IF st # "results" \/ dead THEN null ELSE Some(Closure(fetching, reached))

\* A render throws when the recipe screen maps over fields the selected
\* recipe lacks (selectedRecipe.ingredients.map, line 302).
RenderThrows(st, recipe) ==
  st = "recipe" /\ recipe # null /\ ~recipe[1].complete

Init ==
  /\ state = "input"
  /\ ingredients = <<>>
  /\ inputValue = ""
  /\ suggestions = <<>>
  /\ selectedRecipe = null
  /\ error = null
  /\ capturedImage = null
  /\ isFetchingMore = FALSE
  /\ hasReachedEnd = FALSE
  /\ observer = null
  /\ inflight = EmptyBag
  /\ crashed = FALSE
  /\ event = Ev("init", <<>>)

\* ------------------------------------------------------ the input screen

\* onChange of the text box (line 177); the box is rendered on input only.
setInputValue(v) ==
  /\ ~crashed
  /\ state = "input"
  /\ v # inputValue
  /\ inputValue' = v
  /\ event' = Ev("setInputValue", <<>>)
  /\ UNCHANGED <<state, ingredients, suggestions, selectedRecipe, error, capturedImage,
                 isFetchingMore, hasReachedEnd, observer, inflight, crashed>>

\* addIngredient (lines 55-59): nothing for a blank text, else the trimmed
\* name is appended and the text box is emptied.  An ingredient's id is a
\* fresh UUID that only removeIngredient reads: the model identifies an
\* ingredient by its place in the list.
addIngredient ==
  /\ ~crashed
  /\ state = "input"
  /\ IF Trim(inputValue) = ""
     THEN UNCHANGED <<ingredients, inputValue>>
     ELSE /\ Len(ingredients) < MaxIngredients
          /\ ingredients' = Append(ingredients, [name |-> Trim(inputValue)])
          /\ inputValue' = ""
  /\ event' = Ev("addIngredient", <<>>)
  /\ UNCHANGED <<state, suggestions, selectedRecipe, error, capturedImage,
                 isFetchingMore, hasReachedEnd, observer, inflight, crashed>>

\* removeIngredient (lines 61-63), from the x button of the k-th listed
\* ingredient: prev.filter(i => i.id !== id) drops that one element.
removeIngredient(k) ==
  /\ ~crashed
  /\ state = "input"
  /\ k \in 1..Len(ingredients)
  /\ ingredients' = [i \in 1..(Len(ingredients) - 1) |->
                       IF i < k THEN ingredients[i] ELSE ingredients[i + 1]]
  /\ event' = Ev("removeIngredient", <<>>)
  /\ UNCHANGED <<state, inputValue, suggestions, selectedRecipe, error, capturedImage,
                 isFetchingMore, hasReachedEnd, observer, inflight, crashed>>

\* handleFileUpload (lines 65-74) with a file chosen: the FileReader reads it
\* and its onloadend stores reader.result, the data URL.  Without a file the
\* handler does nothing.
handleFileUpload ==
  /\ ~crashed
  /\ state = "input"
  /\ capturedImage' = Some(DataUrl)
  /\ event' = Ev("handleFileUpload", <<>>)
  /\ UNCHANGED <<state, ingredients, inputValue, suggestions, selectedRecipe, error,
                 isFetchingMore, hasReachedEnd, observer, inflight, crashed>>

\* -------------------------------------------------------------- findDishes

\* findDishes as it would be had line 81 been left out: the error stays.
findDishes_keepsError ==
  /\ ~crashed
  /\ state = "input"
  /\ IF Len(ingredients) = 0 /\ capturedImage = null
     THEN /\ error' = Some(NoInputMsg)
          /\ event' = Ev("findDishes.noInput", <<>>)
          /\ UNCHANGED <<state, hasReachedEnd, inflight, observer>>
     ELSE /\ UNCHANGED error
          /\ state' = "suggesting"
          /\ hasReachedEnd' = FALSE
          /\ inflight' = Issue(Request("suggest", null, suggestions))
          /\ observer' = useEffectObserver("suggesting", isFetchingMore, FALSE, crashed)
          /\ event' = Ev("findDishes", <<>>)
  /\ UNCHANGED <<ingredients, inputValue, suggestions, selectedRecipe, capturedImage,
                 isFetchingMore, crashed>>

\* findDishes as it would be without the guard of lines 77-80.
findDishes_noGuard ==
  /\ ~crashed
  /\ state = "input"
  /\ error' = null
  /\ state' = "suggesting"
  /\ hasReachedEnd' = FALSE
  /\ inflight' = Issue(Request("suggest", null, suggestions))
  /\ observer' = useEffectObserver("suggesting", isFetchingMore, FALSE, crashed)
  /\ event' = Ev(IF Len(ingredients) = 0 /\ capturedImage = null
                 THEN "findDishes.noInput" ELSE "findDishes", <<>>)
  /\ UNCHANGED <<ingredients, inputValue, suggestions, selectedRecipe, capturedImage,
                 isFetchingMore, crashed>>

\* findDishes up to its await (lines 76-87); its button is rendered on the
\* input screen only.
findDishes ==
  /\ ~crashed
  /\ state = "input"
  /\ IF Len(ingredients) = 0 /\ capturedImage = null
     THEN /\ error' = Some(NoInputMsg)
          /\ event' = Ev("findDishes.noInput", <<>>)
          /\ UNCHANGED <<state, hasReachedEnd, inflight, observer>>
     ELSE /\ error' = null
          /\ state' = "suggesting"
          /\ hasReachedEnd' = FALSE
          /\ inflight' = Issue(Request("suggest", null, suggestions))
          /\ observer' = useEffectObserver("suggesting", isFetchingMore, FALSE, crashed)
          /\ event' = Ev("findDishes", <<>>)
  /\ UNCHANGED <<ingredients, inputValue, suggestions, selectedRecipe, capturedImage,
                 isFetchingMore, crashed>>

\* The disabled attribute of the "Find Recipe Suggestions" button (line 216).
findDisabled == Len(ingredients) = 0 /\ capturedImage = null

\* A click on that button (lines 215-221): a disabled button fires no click,
\* so in the page findDishes runs only past its guard.
findDishesClick == ~findDisabled /\ findDishes

\* findDishesThen as it would be had line 88 appended, as line 108 does.
findDishesThen_appends(req, results) ==
  /\ suggestions' = suggestions \o results
  /\ state' = "results"
  /\ inflight' = Settle(req)
  /\ event' = Ev("findDishes.then", results)
  /\ UNCHANGED <<ingredients, inputValue, selectedRecipe, error, capturedImage,
                 isFetchingMore, hasReachedEnd, observer, crashed>>

\* findDishes after the await resolved (lines 88-89).
findDishesThen(req, results) ==
  /\ suggestions' = results
  /\ state' = "results"
  /\ inflight' = Settle(req)
  /\ event' = Ev("findDishes.then", results)
  /\ UNCHANGED <<ingredients, inputValue, selectedRecipe, error, capturedImage,
                 isFetchingMore, hasReachedEnd, observer, crashed>>

\* findDishes after the await threw (lines 90-93).
findDishesCatch(req) ==
  /\ error' = Some(SuggestFailMsg)
  /\ state' = "input"
  /\ inflight' = Settle(req)
  /\ event' = Ev("findDishes.catch", <<>>)
  /\ UNCHANGED <<ingredients, inputValue, suggestions, selectedRecipe, capturedImage,
                 isFetchingMore, hasReachedEnd, observer, crashed>>

\* The suggestion request of findDishes settles.
findDishesSettled ==
  \E req \in BagToSet(inflight), resp \in SuggestionResponses :
    /\ req.kind = "suggest"
    /\ LET res == getDishSuggestions(resp)
       IN  IF res.threw THEN findDishesCatch(req) ELSE findDishesThen(req, res.value)

\* ------------------------------------------------------ loadMoreSuggestions

\* The observer's callback with entries[0].isIntersecting (lines 119-123):
\* it calls the loadMoreSuggestions of the closure the observer was created
\* with (lines 96-103, up to the await).
loadMoreSuggestions ==
  /\ observer # null
  /\ LET c == observer[1]
     IN  IF c.isFetchingMore \/ c.hasReachedEnd
         THEN /\ event' = Ev("loadMoreSuggestions.return", <<>>)
              /\ UNCHANGED <<isFetchingMore, inflight>>
         ELSE /\ CountKind(inflight, {"more"}) < MaxMore
              /\ isFetchingMore' = TRUE
              /\ inflight' = Issue(Request("more", null, <<>>))
              /\ event' = Ev("loadMoreSuggestions", <<>>)
  /\ UNCHANGED <<state, ingredients, inputValue, suggestions, selectedRecipe, error,
                 capturedImage, hasReachedEnd, observer, crashed>>

\* loadMoreThen as it would be had it also called setState('results').
loadMoreThen_toResults(req, results) ==
  /\ IF Len(results) = 0
     THEN /\ hasReachedEnd' = TRUE
          /\ UNCHANGED suggestions
     ELSE /\ suggestions' = suggestions \o results
          /\ UNCHANGED hasReachedEnd
  /\ state' = "results"
  /\ isFetchingMore' = FALSE
  /\ inflight' = Settle(req)
  /\ event' = Ev("loadMoreSuggestions.then", results)
  /\ UNCHANGED <<ingredients, inputValue, selectedRecipe, error, capturedImage,
                 observer, crashed>>

\* loadMoreSuggestions after the await resolved (lines 105-109, 113).
loadMoreThen(req, results) ==
  /\ IF Len(results) = 0
     THEN /\ hasReachedEnd' = TRUE
          /\ UNCHANGED suggestions
     ELSE /\ suggestions' = suggestions \o results
          /\ UNCHANGED hasReachedEnd
  /\ isFetchingMore' = FALSE
  /\ inflight' = Settle(req)
  /\ event' = Ev("loadMoreSuggestions.then", results)
  /\ UNCHANGED <<state, ingredients, inputValue, selectedRecipe, error, capturedImage,
                 observer, crashed>>

\* loadMoreSuggestions after the await threw (lines 110-114).
loadMoreCatch(req) ==
  /\ isFetchingMore' = FALSE
  /\ inflight' = Settle(req)
  /\ event' = Ev("loadMoreSuggestions.catch", <<>>)
  /\ UNCHANGED <<state, ingredients, inputValue, suggestions, selectedRecipe, error,
                 capturedImage, hasReachedEnd, observer, crashed>>

\* A pagination request settles after the tree was unmounted: the state
\* updates of an unmounted component do nothing.
loadMoreUnmounted(req) ==
  /\ inflight' = Settle(req)
  /\ event' = Ev("loadMoreSuggestions.unmounted", <<>>)
  /\ UNCHANGED <<session, observer, crashed>>

\* A pagination request settles.
loadMoreSettled ==
  \E req \in BagToSet(inflight), resp \in SuggestionResponses :
    /\ req.kind = "more"
    /\ LET res == getDishSuggestions(resp)
       IN  IF crashed THEN loadMoreUnmounted(req)
           ELSE IF res.threw THEN loadMoreCatch(req)
           ELSE /\ Len(suggestions) + Len(res.value) <= MaxSuggestions
                /\ loadMoreThen(req, res.value)

\* The effect of lines 117-130 runs for the latest render: the old observer
\* is disconnected and, on results, a new one is connected.
useEffect ==
  /\ observer # useEffectObserver(state, isFetchingMore, hasReachedEnd, crashed)
  /\ observer' = useEffectObserver(state, isFetchingMore, hasReachedEnd, crashed)
  /\ event' = Ev("useEffect", <<>>)
  /\ UNCHANGED <<session, inflight, crashed>>

\* -------------------------------------------------------------- showRecipe

\* showRecipe as it would be were the dish cards still clickable while a
\* recipe loads.
showRecipe_whileLoading(idx) ==
  /\ ~crashed
  /\ state \in {"results", "loading_recipe"}
  /\ idx \in 1..Len(suggestions)
  /\ state' = "loading_recipe"
  /\ inflight' = Issue(Request("detail", Some(suggestions[idx]), suggestions))
  /\ observer' = useEffectObserver("loading_recipe", isFetchingMore, hasReachedEnd, crashed)
  /\ event' = Ev("showRecipe", <<suggestions[idx]>>)
  /\ UNCHANGED <<ingredients, inputValue, suggestions, selectedRecipe, error,
                 capturedImage, isFetchingMore, hasReachedEnd, crashed>>

\* showRecipe as it would be had it begun with setError(null).
showRecipe_clearsError(idx) ==
  /\ ~crashed
  /\ state = "results"
  /\ idx \in 1..Len(suggestions)
  /\ state' = "loading_recipe"
  /\ error' = null
  /\ inflight' = Issue(Request("detail", Some(suggestions[idx]), suggestions))
  /\ observer' = useEffectObserver("loading_recipe", isFetchingMore, hasReachedEnd, crashed)
  /\ event' = Ev("showRecipe", <<suggestions[idx]>>)
  /\ UNCHANGED <<ingredients, inputValue, suggestions, selectedRecipe,
                 capturedImage, isFetchingMore, hasReachedEnd, crashed>>

\* showRecipe up to its await (lines 132-136), from the card of a listed dish.
showRecipe(idx) ==
  /\ ~crashed
  /\ state = "results"
  /\ idx \in 1..Len(suggestions)
  /\ state' = "loading_recipe"
  /\ inflight' = Issue(Request("detail", Some(suggestions[idx]), suggestions))
  /\ observer' = useEffectObserver("loading_recipe", isFetchingMore, hasReachedEnd, crashed)
  /\ event' = Ev("showRecipe", <<suggestions[idx]>>)
  /\ UNCHANGED <<ingredients, inputValue, suggestions, selectedRecipe, error,
                 capturedImage, isFetchingMore, hasReachedEnd, crashed>>

\* showRecipeThen as it would be had it kept a recipe selected earlier.
showRecipeThen_keepsOld(req, detail) ==
  /\ selectedRecipe' = IF selectedRecipe = null THEN Some(detail) ELSE selectedRecipe
  /\ state' = "recipe"
  /\ crashed' = RenderThrows("recipe", selectedRecipe')
  /\ inflight' = Settle(req)
  /\ event' = Ev("showRecipe.then", <<req.dish[1], detail>>)
  /\ UNCHANGED <<ingredients, inputValue, suggestions, error, capturedImage,
                 isFetchingMore, hasReachedEnd, observer>>

\* showRecipe after the await resolved (lines 137-138); the recipe screen is
\* rendered next, and a render that throws unmounts the tree.
showRecipeThen(req, detail) ==
  /\ selectedRecipe' = Some(detail)
  /\ state' = "recipe"
  /\ crashed' = RenderThrows("recipe", Some(detail))
  /\ inflight' = Settle(req)
  /\ event' = Ev("showRecipe.then", <<req.dish[1], detail>>)
  /\ UNCHANGED <<ingredients, inputValue, suggestions, error, capturedImage,
                 isFetchingMore, hasReachedEnd, observer>>

\* showRecipe after the await threw (lines 139-142).
showRecipeCatch(req) ==
  /\ error' = Some(DetailFailMsg)
  /\ state' = "results"
  /\ inflight' = Settle(req)
  /\ event' = Ev("showRecipe.catch", <<>>)
  /\ UNCHANGED <<ingredients, inputValue, suggestions, selectedRecipe, capturedImage,
                 isFetchingMore, hasReachedEnd, observer, crashed>>

\* The detail request of showRecipe settles.
showRecipeSettled ==
  \E req \in {r \in BagToSet(inflight) : r.kind = "detail"} :
    \E resp \in DetailResponses(req.dish[1]) :
       LET res == getRecipeDetail(resp)
       IN  IF res.threw THEN showRecipeCatch(req) ELSE showRecipeThen(req, res.value)

\* ------------------------------------------------------ back and reset

\* backToEdit as it would be had it also emptied the suggestion list.
backToEdit_clears ==
  /\ ~crashed
  /\ state = "results"
  /\ state' = "input"
  /\ suggestions' = <<>>
  /\ observer' = useEffectObserver("input", isFetchingMore, hasReachedEnd, crashed)
  /\ event' = Ev("backToEdit", <<>>)
  /\ UNCHANGED <<ingredients, inputValue, selectedRecipe, error,
                 capturedImage, isFetchingMore, hasReachedEnd, inflight, crashed>>

\* backToEdit as it would be had it also cleared hasReachedEnd.
backToEdit_clearsEnd ==
  /\ ~crashed
  /\ state = "results"
  /\ state' = "input"
  /\ hasReachedEnd' = FALSE
  /\ observer' = useEffectObserver("input", isFetchingMore, FALSE, crashed)
  /\ event' = Ev("backToEdit", <<>>)
  /\ UNCHANGED <<ingredients, inputValue, suggestions, selectedRecipe, error,
                 capturedImage, isFetchingMore, inflight, crashed>>

\* "Back to edit" on the results screen (line 231).
backToEdit ==
  /\ ~crashed
  /\ state = "results"
  /\ state' = "input"
  /\ observer' = useEffectObserver("input", isFetchingMore, hasReachedEnd, crashed)
  /\ event' = Ev("backToEdit", <<>>)
  /\ UNCHANGED <<ingredients, inputValue, suggestions, selectedRecipe, error,
                 capturedImage, isFetchingMore, hasReachedEnd, inflight, crashed>>

\* backToSuggestions as it would be had it also dropped the selected recipe.
backToSuggestions_clears ==
  /\ ~crashed
  /\ state = "recipe" /\ selectedRecipe # null
  /\ state' = "results"
  /\ selectedRecipe' = null
  /\ observer' = useEffectObserver("results", isFetchingMore, hasReachedEnd, crashed)
  /\ event' = Ev("backToSuggestions", <<>>)
  /\ UNCHANGED <<ingredients, inputValue, suggestions, error,
                 capturedImage, isFetchingMore, hasReachedEnd, inflight, crashed>>

\* "Back to suggestions" on the recipe screen (line 278), which is rendered
\* only with a selected recipe (line 274).
backToSuggestions ==
  /\ ~crashed
  /\ state = "recipe" /\ selectedRecipe # null
  /\ state' = "results"
  /\ observer' = useEffectObserver("results", isFetchingMore, hasReachedEnd, crashed)
  /\ event' = Ev("backToSuggestions", <<>>)
  /\ UNCHANGED <<ingredients, inputValue, suggestions, selectedRecipe, error,
                 capturedImage, isFetchingMore, hasReachedEnd, inflight, crashed>>

\* reset as it would be had line 149 been left out: the image stays.
reset_keepsImage ==
  /\ ~crashed
  /\ state = "recipe" /\ selectedRecipe # null
  /\ state' = "input"
  /\ suggestions' = <<>>
  /\ selectedRecipe' = null
  /\ ingredients' = <<>>
  /\ hasReachedEnd' = FALSE
  /\ observer' = useEffectObserver("input", isFetchingMore, FALSE, crashed)
  /\ event' = Ev("reset", <<>>)
  /\ UNCHANGED <<inputValue, error, capturedImage, isFetchingMore, inflight, crashed>>

\* reset (lines 145-152), from "Start Over" on the recipe screen.
reset ==
  /\ ~crashed
  /\ state = "recipe" /\ selectedRecipe # null
  /\ state' = "input"
  /\ suggestions' = <<>>
  /\ selectedRecipe' = null
  /\ capturedImage' = null
  /\ ingredients' = <<>>
  /\ hasReachedEnd' = FALSE
  /\ observer' = useEffectObserver("input", isFetchingMore, FALSE, crashed)
  /\ event' = Ev("reset", <<>>)
  /\ UNCHANGED <<inputValue, error, isFetchingMore, inflight, crashed>>

\* ------------------------------------------------------ specification

Next ==
  \/ \E v \in InputValues : setInputValue(v)
  \/ addIngredient
  \/ \E k \in 1..MaxIngredients : removeIngredient(k)
  \/ handleFileUpload
  \/ findDishesClick
  \/ findDishesSettled
  \/ loadMoreSuggestions
  \/ loadMoreSettled
  \/ useEffect
  \/ \E idx \in 1..MaxSuggestions : showRecipe(idx)
  \/ showRecipeSettled
  \/ backToEdit
  \/ backToSuggestions
  \/ reset

Spec == Init /\ [][Next]_vars

\* The handlers as commands (submit, selectDish, back, reset): as Next, and
\* findDishes can also be called where the page disables its button.  This
\* is the specification for what findDishes does on an empty input.
NextCommands ==
  \/ Next
  \/ findDishes

SpecCommands == Init /\ [][NextCommands]_vars

\* ------------------------------------------------------ claims

\* A submit: findDishes ran, on either side of its guard.
Submit == event'.op \in {"findDishes", "findDishes.noInput"}

\* The pagination requests in flight.
FetchesInFlight == CountKind(inflight, {"more"})

\* C1 as stated: the suggestion list is non-empty only on the results screen.
C1_SuggestionsOnlyOnResults == suggestions # <<>> => state = "results"

\* C1 as amended: the suggestion list starts empty and is changed only by a
\* successful search, a successful pagination fetch and reset; back, select
\* dish and submit keep it, so it is held on the other screens too.
C1_SuggestionsKeptOffResults ==
  /\ suggestions = <<>>
  /\ [][suggestions' # suggestions =>
          event'.op \in {"findDishes.then", "loadMoreSuggestions.then", "reset"}]_vars

\* C1: back from results has left a non-empty list on the input screen.
C1_Witness == event.op = "backToEdit" /\ state = "input" /\ suggestions # <<>>

\* C2 as stated: a recipe is selected only on the recipe screen.
C2_RecipeOnlyOnRecipeScreen == selectedRecipe # null => state = "recipe"

\* C2 as amended: selectedRecipe starts null and is changed only by a
\* successful detail request, which stores the returned detail, and by
\* reset, which sets it to null; back from recipe and a later new search
\* keep it.
C2_RecipeKeptUntilReset ==
  /\ selectedRecipe = null
  /\ [][selectedRecipe' # selectedRecipe =>
          \/ event'.op = "showRecipe.then" /\ selectedRecipe' = Some(event'.arg[2])
          \/ event'.op = "reset" /\ selectedRecipe' = null]_vars

\* C2: a new search was submitted after back from recipe, the recipe still held.
C2_Witness == event.op = "findDishes" /\ state = "suggesting" /\ selectedRecipe # null

\* The edges of the transition table, each with the handler that takes it.
TransitionTable ==
  {<<"input", "findDishes", "suggesting">>,
   <<"suggesting", "findDishes.then", "results">>,
   <<"suggesting", "findDishes.catch", "input">>,
   <<"results", "showRecipe", "loading_recipe">>,
   <<"results", "backToEdit", "input">>,
   <<"loading_recipe", "showRecipe.then", "recipe">>,
   <<"loading_recipe", "showRecipe.catch", "results">>,
   <<"recipe", "backToSuggestions", "results">>,
   <<"recipe", "reset", "input">>}

\* C3: the screen starts at input and every change of screen is an edge of
\* the transition table, taken by that edge's trigger.
C3_TransitionsFollowTable ==
  /\ state = "input"
  /\ [][state' # state => <<state, event'.op, state'>> \in TransitionTable]_vars

\* C3: a pagination response has arrived on a screen other than results.
C3_Witness == event.op = "loadMoreSuggestions.then" /\ state = "loading_recipe"

\* C4 as stated: at most one pagination fetch is in flight at any time.
C4_OneFetchInFlight == FetchesInFlight <= 1

\* C5 as stated, for a response that arrives while a new search is awaited: a
\* pagination response leaves the suggestion list and hasReachedEnd alone.
C5_StaleResponseIgnored ==
  [][event'.op \in {"loadMoreSuggestions.then", "loadMoreSuggestions.catch"}
       /\ state = "suggesting"
       => UNCHANGED <<suggestions, hasReachedEnd>>]_vars

\* C6: a submit from input with an ingredient or an image moves to
\* suggesting, sets the error to null, sets hasReachedEnd to false and puts
\* exactly one suggestion request in flight.
C6_SubmitStartsSearch ==
  [][Submit /\ state = "input" /\ (Len(ingredients) # 0 \/ capturedImage # null)
       => /\ state' = "suggesting"
          /\ error' = null
          /\ hasReachedEnd' = FALSE
          /\ inflight' = inflight (+) SetToBag({Request("suggest", null, suggestions)})
          /\ BagCardinality(inflight') = BagCardinality(inflight) + 1]_vars

\* C6: a search was submitted with an image and no ingredient, over the list
\* of an earlier search.
C6_Witness ==
  /\ event.op = "findDishes" /\ state = "suggesting"
  /\ ingredients = <<>> /\ capturedImage # null /\ suggestions # <<>>
  /\ error = null /\ ~hasReachedEnd

\* C7: a submit from input with no ingredient and no image stays on input,
\* sets an error and issues no request; every other field is unchanged.
C7_EmptySubmitRejected ==
  [][Submit /\ state = "input" /\ Len(ingredients) = 0 /\ capturedImage = null
       => /\ state' = "input"
          /\ error' # null
          /\ inflight' = inflight
          /\ UNCHANGED <<ingredients, inputValue, suggestions, selectedRecipe,
                         capturedImage, isFetchingMore, hasReachedEnd>>]_vars

\* C7: the empty submit has set its error.
C7_Witness ==
  /\ event.op = "findDishes.noInput" /\ state = "input" /\ error = Some(NoInputMsg)
  /\ ingredients = <<>> /\ capturedImage = null

\* C8: when the request of a submit returns N items the screen becomes
\* results and the suggestion list is those N items, in their order.
C8_SearchReplacesList ==
  [][event'.op = "findDishes.then"
       => /\ state = "suggesting" /\ state' = "results"
          /\ suggestions' = event'.arg]_vars

\* C8: a search returned two different dishes over a list that held others,
\* with a pagination fetch in flight.
C8_Witness ==
  /\ event.op = "findDishes.then" /\ state = "results"
  /\ Len(suggestions) = 2 /\ suggestions[1] # suggestions[2]
  /\ FetchesInFlight > 0

\* C9 as stated: when the request of a submit fails the screen is input with
\* an error, the suggestion list is empty or what it was before the submit,
\* and on input no request is issued but by a submit.
C9_FailedSearchKeepsList ==
  [][/\ event'.op = "findDishes.catch"
        => /\ state' = "input" /\ error' # null
           /\ \A req \in BagToSet(inflight) :
                req.kind = "suggest" => suggestions' \in {<<>>, req.listed}
     /\ state = "input" /\ BagCardinality(inflight') > BagCardinality(inflight)
        => Submit]_vars

\* The detail requests in flight.
DetailInFlight == {req \in BagToSet(inflight) : req.kind = "detail"}

\* C10: selecting a dish on results moves to loading_recipe and issues one
\* detail request, for that dish; when it succeeds the screen becomes recipe,
\* selectedRecipe is the detail returned for that dish, and the suggestion
\* list is unchanged.
C10_SelectedDishIsShown ==
  [][/\ event'.op = "showRecipe"
        => /\ state = "results" /\ state' = "loading_recipe"
           /\ \E idx \in 1..Len(suggestions) : event'.arg = <<suggestions[idx]>>
           /\ inflight' = inflight (+)
                SetToBag({Request("detail", event'.arg, suggestions)})
           /\ DetailInFlight = {}
     /\ event'.op = "showRecipe.then"
        => /\ state = "loading_recipe" /\ state' = "recipe"
           /\ \A req \in DetailInFlight : event'.arg[1] = req.dish[1]
           /\ selectedRecipe' = Some(event'.arg[2])
           /\ event'.arg[2].complete => event'.arg[2].name = event'.arg[1].name
           /\ suggestions' = suggestions]_vars

\* C10: the second listed dish was selected and its recipe is the one held.
C10_Witness ==
  /\ event.op = "showRecipe.then" /\ state = "recipe"
  /\ Len(suggestions) = 2 /\ suggestions[1] # suggestions[2]
  /\ selectedRecipe = Some(event.arg[2])
  /\ selectedRecipe[1].name = suggestions[2].name

\* C11 as stated: when the detail request fails the screen goes from
\* loading_recipe to results with an error, and the suggestion list and
\* selectedRecipe are what they were before the dish was selected.
C11_FailedDetailKeepsList ==
  [][event'.op = "showRecipe.catch"
       => /\ state = "loading_recipe" /\ state' = "results"
          /\ error' # null
          /\ selectedRecipe' = selectedRecipe
          /\ \A req \in DetailInFlight : suggestions' = req.listed]_vars

\* A load trigger: the observer called loadMoreSuggestions, which fetched
\* or returned at line 97.
LoadTrigger == event'.op \in {"loadMoreSuggestions", "loadMoreSuggestions.return"}

\* C12 as stated: a pagination fetch that succeeds with no item sets
\* hasReachedEnd and keeps the suggestion list, and while hasReachedEnd is
\* set no load trigger fetches.
C12_ExhaustionStopsFetching ==
  [][/\ event'.op = "loadMoreSuggestions.then" /\ event'.arg = <<>>
        => hasReachedEnd' /\ suggestions' = suggestions
     /\ LoadTrigger /\ hasReachedEnd => inflight' = inflight]_vars

\* C13 as stated: a pagination fetch that succeeds with one item or more
\* appends the items, in their order, after the listed ones, which keep their
\* places; hasReachedEnd is false and isFetchingMore is false after it.
C13_MoreItemsAppended ==
  [][event'.op = "loadMoreSuggestions.then" /\ event'.arg # <<>>
       => /\ suggestions' = suggestions \o event'.arg
          /\ \A i \in 1..Len(suggestions) : suggestions'[i] = suggestions[i]
          /\ ~hasReachedEnd'
          /\ ~isFetchingMore']_vars

\* C14 as stated: a pagination fetch that fails clears isFetchingMore, leaves
\* hasReachedEnd false and keeps the suggestion list, the screen and the
\* error.
C14_FailedFetchIsSilent ==
  [][event'.op = "loadMoreSuggestions.catch"
       => /\ ~isFetchingMore'
          /\ ~hasReachedEnd'
          /\ UNCHANGED <<suggestions, state, error>>]_vars

\* C15: reset runs on the recipe screen and leaves the screen input, the
\* ingredient list and the suggestion list empty, selectedRecipe and the
\* captured image null, and hasReachedEnd false.
C15_ResetClearsSearch ==
  [][event'.op = "reset"
       => /\ state = "recipe" /\ state' = "input"
          /\ ingredients' = <<>>
          /\ suggestions' = <<>>
          /\ selectedRecipe' = null
          /\ capturedImage' = null
          /\ ~hasReachedEnd']_vars

\* C15: reset has run on a session started from a photo, with a pagination
\* fetch still in flight.
C15_Witness ==
  /\ event.op = "reset" /\ state = "input"
  /\ ingredients = <<>> /\ suggestions = <<>> /\ selectedRecipe = null
  /\ capturedImage = null /\ ~hasReachedEnd
  /\ FetchesInFlight > 0

\* The session record after construction (lines 43-51).
InitialSession == <<"input", <<>>, "", <<>>, null, null, null, FALSE, FALSE>>

\* C16 as stated: after reset every field of the session has its initial
\* value.
C16_ResetRestoresInitial ==
  [][event'.op = "reset" => session' = InitialSession]_vars

\* C17 as stated: a body that is empty, malformed or without the required
\* fields makes the client throw, for both requests, and a recipe without
\* the required fields is never stored as selectedRecipe.
C17_BadBodyIsAnError ==
  /\ \A resp \in SuggestionResponses :
       resp.kind # "json" => getDishSuggestions(resp).threw
  /\ \A dish \in DishSuggestion : \A resp \in DetailResponses(dish) :
       resp.kind # "json" => getRecipeDetail(resp).threw
  /\ selectedRecipe # null => selectedRecipe[1].complete

\* C18 as stated: hasReachedEnd goes from true to false only in a guarded
\* submit.
C18_EndClearedOnlyBySearch ==
  [][hasReachedEnd /\ ~hasReachedEnd' => event'.op = "findDishes"]_vars

\* C18 as amended: hasReachedEnd goes from true to false only in a guarded
\* submit or in reset; back, select dish and the completions of requests
\* never clear it.
C18_EndClearedBySearchOrReset ==
  [][hasReachedEnd /\ ~hasReachedEnd' => event'.op \in {"findDishes", "reset"}]_vars

\* C18: a recipe is shown while hasReachedEnd is set, so that Start Over
\* clears the flag.
C18_Witness ==
  /\ event.op = "showRecipe.then" /\ state = "recipe"
  /\ selectedRecipe # null /\ ~crashed
  /\ hasReachedEnd

\* What the user can do on the page: type, add, remove, upload, submit,
\* select a dish, go back, start over.
UserAction ==
  \/ \E v \in InputValues : setInputValue(v)
  \/ addIngredient
  \/ \E k \in 1..MaxIngredients : removeIngredient(k)
  \/ handleFileUpload
  \/ findDishesClick
  \/ \E idx \in 1..MaxSuggestions : showRecipe(idx)
  \/ backToEdit
  \/ backToSuggestions
  \/ reset

\* C19 as stated, its last part: on an interactive screen some user action
\* is enabled.
C19_InteractiveScreenIsUsable ==
  state \in {"input", "results", "recipe"} => ENABLED UserAction

\* C20 as stated: isFetchingMore is true exactly when a pagination fetch is
\* in flight.
C20_FlagTracksFetch ==
  ~crashed => (isFetchingMore <=> FetchesInFlight > 0)

\* The primary requests in flight: the search of findDishes and the detail
\* request of showRecipe.
PrimaryInFlight == CountKind(inflight, {"suggest", "detail"})

\* The two loading screens.
Loading == state \in {"suggesting", "loading_recipe"}

\* C21: a primary request is in flight exactly on suggesting and
\* loading_recipe, and never more than one; on those screens no user action
\* is enabled, and the screen leaves them only when that request completes.
C21_LoadingMeansOnePrimaryRequest ==
  /\ [](/\ PrimaryInFlight <= 1
        /\ Loading <=> PrimaryInFlight = 1
        /\ state = "suggesting" => CountKind(inflight, {"suggest"}) = 1
        /\ state = "loading_recipe" => CountKind(inflight, {"detail"}) = 1
        /\ Loading => ~ENABLED UserAction)
  /\ [][Loading /\ state' # state
          => /\ event'.op \in {"findDishes.then", "findDishes.catch",
                               "showRecipe.then", "showRecipe.catch"}
             /\ PrimaryInFlight' = 0]_vars

\* C21: a recipe is loading while a pagination fetch is also in flight.
C21_Witness ==
  /\ state = "loading_recipe" /\ event.op = "showRecipe"
  /\ PrimaryInFlight = 1 /\ FetchesInFlight > 0

\* C22: a set error becomes null only in a guarded submit from input.
C22_ErrorClearedOnlyBySearch ==
  [][error # null /\ error' = null
       => event'.op = "findDishes" /\ state = "input"]_vars

\* C22: the error of a failed detail request is still set on input after a
\* later recipe was shown and Start Over was pressed.
C22_Witness ==
  /\ event.op = "reset" /\ state = "input"
  /\ error = Some(DetailFailMsg)

=============================================================================
